---- MODULE Spec2Model ----
(***************************************************************************)
(* Model of trailingstoploss_tp.py (3Commas trailing stop-loss / take-     *)
(* profit helper with safety-order funding).                               *)
(*                                                                         *)
(* Numbers.  The program computes with Python floats.  The model uses      *)
(* exact fixed-point values:                                               *)
(*   - a percentage is an integer number of hundredths of a percent        *)
(*     (2.0% is 200), which is the grain round(x, 2) produces;             *)
(*   - an increment factor or martingale coefficient is an integer number  *)
(*     of tenths (0.4 is 4, 1.2 is 12);                                    *)
(*   - a price read from the platform is an integer number of price units; *)
(*   - a computed value that is not on such a grid (the stop-loss price,   *)
(*     the ladder's drops, volumes and prices) is an exact fraction: a     *)
(*     numerator over a denominator that the definition states.            *)
(* round(x, 2) is rounding of the exact value to the nearest hundredth,    *)
(* ties to even.                                                           *)
(***************************************************************************)
EXTENDS Integers, Sequences, FiniteSets, TLC

\* hundredths in one percent: the two decimals of round(x, 2)
PctScale == 100
\* tenths in one unit of a factor or coefficient
FactorScale == 10
\* denominator of a computed stop-loss price: the two divisions by 100.0 in
\* calculate_sl_percentage, on hundredths, times the factor's tenths
PriceDen == 100 * PctScale * FactorScale

(***************************************************************************)
(* Bounds of the model.                                                    *)
(***************************************************************************)
\* longest profit-config list of a section
MaxTiers == 2
\* number of handler calls a behaviour of SpecTrailing makes
MaxCalls == 3
\* largest max_safety_orders of a deal
MaxSO == 3

(***************************************************************************)
(* Arithmetic helpers.                                                     *)
(***************************************************************************)
fabs(x) == IF x < 0 THEN -x ELSE x

\* rounding with ties upward, for comparison
round_half_up(num, den) == (2 * num + den) \div (2 * den)

\* round(num / den) to the nearest integer, ties to even; den > 0
round2(num, den) ==
    LET q == num \div den
        r == num % den
    IN  IF 2 * r < den THEN q
        ELSE IF 2 * r > den THEN q + 1
        ELSE IF q % 2 = 0 THEN q ELSE q + 1

(***************************************************************************)
(* PercentageMath.  sl_price is a numerator over PriceDen; the reference   *)
(* price is in price units; the result is in hundredths of a percent.      *)
(* (sl_price / PriceDen / ref) * 100 percent, in hundredths, is            *)
(* sl_price / (ref * FactorScale).                                         *)
(***************************************************************************)
calculate_slpercentage_base_price_short(sl_price, base_price) ==
    round2(sl_price - 100 * PctScale * base_price * FactorScale,
           base_price * FactorScale)

\* the short formula in place of the long one, for comparison
slpercentage_base_price_as_short(sl_price, base_price) ==
    calculate_slpercentage_base_price_short(sl_price, base_price)

calculate_slpercentage_base_price_long(sl_price, base_price) ==
    round2(100 * PctScale * base_price * FactorScale - sl_price,
           base_price * FactorScale)

calculate_average_price_sl_percentage_short(sl_price, average_price) ==
    round2(100 * PctScale * average_price * FactorScale - sl_price,
           average_price * FactorScale)

\* the short formula in place of the long one, for comparison
average_price_sl_percentage_as_short(sl_price, average_price) ==
    calculate_average_price_sl_percentage_short(sl_price, average_price)

calculate_average_price_sl_percentage_long(sl_price, average_price) ==
    round2(sl_price - 100 * PctScale * average_price * FactorScale,
           average_price * FactorScale)

(***************************************************************************)
(* TierSelector.  The empty dict {} the code starts from is EmptyConfig.   *)
(***************************************************************************)
EmptyConfig == [empty |-> TRUE]

RECURSIVE scan_config(_, _, _, _)
scan_config(section_profit_config, current_profit, i, profitconfig) ==
    IF i > Len(section_profit_config) THEN profitconfig
    ELSE IF current_profit >= section_profit_config[i].activation_percentage
         THEN scan_config(section_profit_config, current_profit, i + 1,
                          section_profit_config[i])
         ELSE profitconfig

\* a scan that returns at the first tier within the profit, for comparison
RECURSIVE scan_first_match(_, _, _)
scan_first_match(section_profit_config, current_profit, i) ==
    IF i > Len(section_profit_config) THEN EmptyConfig
    ELSE IF current_profit >= section_profit_config[i].activation_percentage
         THEN section_profit_config[i]
         ELSE scan_first_match(section_profit_config, current_profit, i + 1)

get_config_first_match(section_profit_config, current_profit) ==
    scan_first_match(section_profit_config, current_profit, 1)

\* lines 240-256
get_config_for_profit(section_profit_config, current_profit) ==
    scan_config(section_profit_config, current_profit, 1, EmptyConfig)

(***************************************************************************)
(* DealStateStore: the deals table is a function from the dealid of each   *)
(* stored row to the row.                                                  *)
(***************************************************************************)
\* the rows of the table with this dealid: none or one, dealid being the key
Rows(db, deal_id) == { db[d] : d \in DOMAIN db \cap {deal_id} }

\* helpers.misc.check_deal selects the row with this dealid and returns it,
\* or None: the set holding the row, or the empty set
check_deal(db, deal_id) == Rows(db, deal_id)

add_deal_in_db(db, deal_id, bot_id, tp_percentage, readable_sl_percentage, readable_tp_percentage) ==
    [d \in DOMAIN db \cup {deal_id} |->
        IF d = deal_id
        THEN [botid |-> bot_id,
              last_profit_percentage |-> tp_percentage,
              last_readable_sl_percentage |-> readable_sl_percentage,
              last_readable_tp_percentage |-> readable_tp_percentage]
        ELSE db[d]]

update_deal_in_db(db, deal_id, tp_percentage, readable_sl_percentage, readable_tp_percentage) ==
    [d \in DOMAIN db |->
        IF d = deal_id
        THEN [db[d] EXCEPT !.last_profit_percentage = tp_percentage,
                           !.last_readable_sl_percentage = readable_sl_percentage,
                           !.last_readable_tp_percentage = readable_tp_percentage]
        ELSE db[d]]

remove_active_deal(db, deal_id) ==
    [d \in DOMAIN db \ {deal_id} |-> db[d]]

remove_closed_deals(db, bot_id, current_deals) ==
    IF current_deals # <<>>
    THEN LET keep == {current_deals[i] : i \in 1..Len(current_deals)}
         IN  [d \in {x \in DOMAIN db : ~(db[x].botid = bot_id /\ x \notin keep)}
                 |-> db[d]]
    ELSE db

remove_all_deals(db, bot_id) ==
    [d \in {x \in DOMAIN db : db[x].botid # bot_id} |-> db[d]]

(***************************************************************************)
(* TradingPlatformClient requests.  A request is recorded as the payload   *)
(* the code sends; the platform's answer is decided by the caller.         *)
(***************************************************************************)
update_deal_profit(thebot, deal, new_stoploss, new_take_profit) ==
    [action |-> "update_deal",
     deal_id |-> deal.id,
     stop_loss_percentage |-> new_stoploss,
     take_profit |-> new_take_profit]

(***************************************************************************)
(* TrailingCalculator.                                                     *)
(***************************************************************************)
\* << average_price, sl_price (over PriceDen), base_price_sl_percentage >>
calculate_sl_percentage(deal_data, profit_config, activation_diff) ==
    LET initial_stoploss_percentage == profit_config.initial_stoploss_percentage
        sl_increment_factor == profit_config.sl_increment_factor
        average_price ==
            IF deal_data.strategy = "short"
            THEN deal_data.sold_average_price
            ELSE deal_data.bought_average_price
        \* average_price * (initial/100 + (diff/100) * factor), over PriceDen
        percentage_price ==
            average_price * (initial_stoploss_percentage * FactorScale
                             + activation_diff * sl_increment_factor)
        sl_price ==
            IF deal_data.strategy = "short"
            THEN average_price * PriceDen - percentage_price
            ELSE average_price * PriceDen + percentage_price
        base_price == deal_data.base_order_average_price
        base_price_sl_percentage ==
            IF deal_data.strategy = "short"
            THEN calculate_slpercentage_base_price_short(sl_price, base_price)
            ELSE calculate_slpercentage_base_price_long(sl_price, base_price)
    IN  << average_price, sl_price, base_price_sl_percentage >>

\* The effect of a handler: the requests it sent, in order, the deals table
\* it leaves, and whether it ended by raising an exception.
Effect(calls, db, raised) == [calls |-> calls, db |-> db, raised |-> raised]

\* a test that lets every stop-loss through, for comparison
sl_always_activates(base_price_sl_percentage) == TRUE

\* line 394: if sl_data[2] != 0.00
sl_activates(base_price_sl_percentage) == base_price_sl_percentage # 0

handle_new_deal(thebot, deal, profit_config, db) ==
    LET botid == thebot.id
        actual_profit_percentage == deal.actual_profit_percentage
        activation_percentage == profit_config.activation_percentage
        activation_diff == actual_profit_percentage - activation_percentage
        sl_data == calculate_sl_percentage(deal, profit_config, activation_diff)
    IN  IF sl_activates(sl_data[3])
        THEN LET average_price_sl_percentage ==
                     IF deal.strategy = "short"
                     THEN calculate_average_price_sl_percentage_short(
                              sl_data[2], sl_data[1])
                     ELSE calculate_average_price_sl_percentage_long(
                              sl_data[2], sl_data[1])
                 current_tp_percentage == deal.take_profit
                 new_tp_percentage ==
                     round2(current_tp_percentage * FactorScale
                            + activation_diff * profit_config.tp_increment_factor,
                            FactorScale)
             IN  Effect(<< update_deal_profit(thebot, deal, sl_data[3],
                                              new_tp_percentage) >>,
                        add_deal_in_db(db, deal.id, botid,
                                       actual_profit_percentage,
                                       average_price_sl_percentage,
                                       new_tp_percentage),
                        FALSE)
        ELSE Effect(<< >>, db, FALSE)

\* stop_loss_percentage of a deal is {} for None, else the set of its value
float_sl(deal_sl) == CHOOSE v \in deal_sl : TRUE

\* the non-strict test, for comparison
profit_not_decreased(actual_profit_percentage, last_profit_percentage) ==
    actual_profit_percentage >= last_profit_percentage

\* line 455: the test that opens the trailing update
profit_increased(actual_profit_percentage, last_profit_percentage) ==
    actual_profit_percentage > last_profit_percentage

\* a test of the new stop-loss alone, for comparison
sl_is_nonzero(base_price_sl_percentage, current_sl_percentage) ==
    fabs(base_price_sl_percentage) > 0

\* line 469
sl_changes(base_price_sl_percentage, current_sl_percentage) ==
    /\ fabs(base_price_sl_percentage) > 0
    /\ base_price_sl_percentage # current_sl_percentage

\* a gate that lets every pair of factors through, for comparison
factors_never_idle(sl_increment_factor, tp_increment_factor) == TRUE

\* line 459: if sl_increment_factor > 0.0 or tp_increment_factor > 0.0
factors_can_change(sl_increment_factor, tp_increment_factor) ==
    sl_increment_factor > 0 \/ tp_increment_factor > 0

handle_update_deal(thebot, deal, deal_db_data, profit_config, db) ==
    LET actual_profit_percentage == deal.actual_profit_percentage
        last_profit_percentage == deal_db_data.last_profit_percentage
    IN  IF profit_increased(actual_profit_percentage, last_profit_percentage)
        THEN IF profit_config = EmptyConfig
             \* {}.get("sl-increment-factor") is None and float(None) raises
             THEN Effect(<< >>, db, TRUE)
             ELSE
             LET sl_increment_factor == profit_config.sl_increment_factor
                 tp_increment_factor == profit_config.tp_increment_factor
             IN  IF factors_can_change(sl_increment_factor, tp_increment_factor)
                 THEN LET activation_diff ==
                              actual_profit_percentage
                              - profit_config.activation_percentage
                          sl_data == calculate_sl_percentage(
                                         deal, profit_config, activation_diff)
                      IN  IF deal.stop_loss_percentage = {}
                          \* float(None) raises
                          THEN Effect(<< >>, db, TRUE)
                          ELSE
                          LET current_sl_percentage ==
                                  float_sl(deal.stop_loss_percentage)
                          IN  IF sl_changes(sl_data[3], current_sl_percentage)
                              THEN LET new_average_price_sl_percentage ==
                                           IF deal.strategy = "short"
                                           THEN calculate_average_price_sl_percentage_short(
                                                    sl_data[2], sl_data[1])
                                           ELSE calculate_average_price_sl_percentage_long(
                                                    sl_data[2], sl_data[1])
                                       current_tp_percentage == deal.take_profit
                                       new_tp_percentage ==
                                           round2(current_tp_percentage * FactorScale
                                                  + (actual_profit_percentage
                                                     - last_profit_percentage)
                                                    * tp_increment_factor,
                                                  FactorScale)
                                   IN  Effect(<< update_deal_profit(
                                                     thebot, deal, sl_data[3],
                                                     new_tp_percentage) >>,
                                              update_deal_in_db(
                                                  db, deal.id,
                                                  actual_profit_percentage,
                                                  new_average_price_sl_percentage,
                                                  new_tp_percentage),
                                              FALSE)
                              ELSE Effect(<< >>, db, FALSE)
                 ELSE Effect(<< >>, db, FALSE)
        ELSE Effect(<< >>, db, FALSE)

(***************************************************************************)
(* Exact fractions for the safety-order ladder: << numerator, denominator >>*)
(* in lowest terms, denominator > 0.                                       *)
(***************************************************************************)
RECURSIVE GCD(_, _)
GCD(a, b) == IF b = 0 THEN a ELSE GCD(b, a % b)

Rat(n, d) ==
    LET g == GCD(fabs(n), d)
    IN  << n \div g, d \div g >>

RatAdd(a, b) == Rat(a[1] * b[2] + b[1] * a[2], a[2] * b[2])
RatMul(a, b) == Rat(a[1] * b[1], a[2] * b[2])
RatAbs(a) == << fabs(a[1]), a[2] >>
RatLess(a, b) == a[1] * b[2] < b[1] * a[2]
Zero == Rat(0, 1)

(***************************************************************************)
(* SafetyOrderLadder.                                                      *)
(***************************************************************************)
update_deal_add_safety_funds(thebot, deal, quantity, limit_price) ==
    [action |-> "add_funds",
     deal_id |-> deal.id,
     quantity |-> quantity,
     rate |-> limit_price]

\* ((current_price / base_order_average_price) * 100.0) - 100.0, in percent
currentTotalProfit(deal_data) ==
    Rat(100 * deal_data.current_price
        - 100 * deal_data.base_order_average_price,
        deal_data.base_order_average_price)

\* base_order_average_price * ((100 - drop) / 100.0), drop in percent
so_buy_price(deal_data, drop) ==
    RatMul(Rat(deal_data.base_order_average_price, 1),
           RatMul(RatAdd(Rat(100, 1), << -drop[1], drop[2] >>), Rat(1, 100)))

\* line 732: the first safety order is reached
first_so_reached(TotalSODrop, profit) == RatLess(TotalSODrop, RatAbs(profit))

\* a loop condition that admits one more step, for comparison
ladder_continues_one_more(SOCounter, max_safety_orders) ==
    SOCounter <= max_safety_orders

\* line 742: the condition of the while loop
ladder_continues(SOCounter, max_safety_orders) ==
    SOCounter < max_safety_orders

\* a test that also stops at a drop equal to the loss, for comparison
next_so_not_passed(TotalSODrop, profit) ==
    ~RatLess(TotalSODrop, RatAbs(profit))

\* line 752: the next safety order is not reached yet
next_so_not_reached(TotalSODrop, profit) == RatLess(RatAbs(profit), TotalSODrop)

\* an assignment in place of the addition, for comparison
replace_so_volume(SO_Volume, NextSO_volume) == NextSO_volume

\* line 758: SO_Volume += NextSO_volume
add_so_volume(SO_Volume, NextSO_volume) == RatAdd(SO_Volume, NextSO_volume)

\* lines 742-762: the while loop on the local variables s; s.iterations
\* counts the executions of its body
RECURSIVE ladder_loop(_, _, _)
ladder_loop(thebot, deal_data, s) ==
    IF ladder_continues(s.SOCounter, deal_data.max_safety_orders)
    THEN LET NextSO_volume ==
                 RatMul(s.NextSO_volume,
                        Rat(thebot.martingale_volume_coefficient, FactorScale))
             NextSO_Percentage_Drop ==
                 RatMul(s.NextSO_Percentage_Drop,
                        Rat(thebot.martingale_step_coefficient, FactorScale))
             TotalSODrop == RatAdd(s.TotalSODrop, NextSO_Percentage_Drop)
             NextSO_buy_price == so_buy_price(deal_data, TotalSODrop)
             s1 == [s EXCEPT !.NextSO_volume = NextSO_volume,
                             !.NextSO_Percentage_Drop = NextSO_Percentage_Drop,
                             !.TotalSODrop = TotalSODrop,
                             !.NextSO_buy_price = NextSO_buy_price,
                             !.iterations = @ + 1]
         IN  IF next_so_not_reached(TotalSODrop, currentTotalProfit(deal_data))
             THEN s1
             ELSE ladder_loop(thebot, deal_data,
                      [s1 EXCEPT !.SO_Volume = add_so_volume(@, NextSO_volume),
                                 !.SO_Price = NextSO_buy_price,
                                 !.SOCounter = @ + 1])
    ELSE s

\* The result: raised when the function ends in an exception, else the tuple
\* (SOCounter, SO_Volume, SO_Price); iterations is the number of executions
\* of the loop body.
SOResult(raised, SOCounter, SO_Volume, SO_Price, iterations) ==
    [raised |-> raised, SOCounter |-> SOCounter, SO_Volume |-> SO_Volume,
     SO_Price |-> SO_Price, iterations |-> iterations]

\* lines 719-726: the local variables before the first test
first_so(thebot, deal_data, NextSO_volume, NextSO_Percentage_Drop) ==
    [SOCounter |-> 0,
     SO_Volume |-> Zero,
     SO_Price |-> Zero,
     NextSO_volume |-> NextSO_volume,
     NextSO_Percentage_Drop |-> NextSO_Percentage_Drop,
     NextSO_buy_price |-> so_buy_price(deal_data, NextSO_Percentage_Drop),
     TotalSODrop |-> NextSO_Percentage_Drop,
     iterations |-> 0]

\* lines 732-762, from the local variables s0
walk_ladder(thebot, deal_data, s0) ==
    IF first_so_reached(s0.TotalSODrop, currentTotalProfit(deal_data))
    THEN ladder_loop(thebot, deal_data,
                     [s0 EXCEPT !.SO_Volume = s0.NextSO_volume,
                                !.SO_Price = s0.NextSO_buy_price,
                                !.SOCounter = 1])
    ELSE s0

\* line 768, from the local variables s
returned_tuple(s) ==
    SOResult(FALSE, s.SOCounter, s.SO_Volume, s.SO_Price, s.iterations)

calculate_safety_order(thebot, deal_data) ==
    IF deal_data.actual_profit_percentage < 0
    THEN returned_tuple(
             walk_ladder(thebot, deal_data,
                 first_so(thebot, deal_data,
                          Rat(thebot.safety_order_volume, 1),
                          Rat(thebot.safety_order_step_percentage, PctScale))))
    \* SO_Volume and SO_Price are assigned only inside the if: the return
    \* statement raises UnboundLocalError
    ELSE SOResult(TRUE, 0, Zero, Zero, 0)

\* a test that asks for funds whatever the count, for comparison
funds_always_required(SOCounter) == TRUE

\* line 666: if SOData[0] > 0
funds_required(SOCounter) == SOCounter > 0

\* lines 662-670, on the tuple SOData
add_safety_funds(thebot, thedeal, SOData, db) ==
    IF SOData.raised THEN Effect(<< >>, db, TRUE)
    ELSE IF funds_required(SOData.SOCounter)
    THEN Effect(<< update_deal_add_safety_funds(
                       thebot, thedeal, SOData.SO_Volume, SOData.SO_Price) >>,
                db, FALSE)
    ELSE Effect(<< >>, db, FALSE)

\* a handler that asks only for safety orders beyond those the deal has
\* completed, for comparison
safety_orders_above_completed(thebot, thedeal, deal_db_data, db) ==
    IF calculate_safety_order(thebot, thedeal).raised
       \/ calculate_safety_order(thebot, thedeal).SOCounter
              > thedeal.completed_safety_orders_count
    THEN add_safety_funds(thebot, thedeal,
                          calculate_safety_order(thebot, thedeal), db)
    ELSE Effect(<< >>, db, FALSE)

handle_safety_orders(thebot, thedeal, deal_db_data, db) ==
    add_safety_funds(thebot, thedeal, calculate_safety_order(thebot, thedeal),
                     db)

(***************************************************************************)
(* process_deals.  thebot.active_deals is the sequence of deal snapshots   *)
(* the platform returned for the bot.                                      *)
(***************************************************************************)
\* line 285: the continue statement that follows handle_safety_orders; the
\* statements after it in the loop body (lines 287-302) are not executed
continues_after_safety_orders == TRUE

\* line 275: if deal["strategy"] in ("short", "long")
strategy_is_handled(strategy) == strategy \in {"short", "long"}

\* the accumulator of the pass after a handler's effect
after_handler(acc, eff) ==
    [acc EXCEPT !.monitored_deals = 1,
                !.calls = @ \o eff.calls,
                !.db = eff.db,
                !.raised = eff.raised]

\* lines 287-302 for one deal, on the accumulator acc of the pass
trailing_branch(thebot, deal, deal_db_data, actual_profit_config, acc) ==
    IF deal_db_data = {} /\ actual_profit_config # EmptyConfig
    THEN after_handler(acc, handle_new_deal(thebot, deal, actual_profit_config,
                                            acc.db))
    ELSE IF deal_db_data # {}
    THEN IF (IF deal.stop_loss_percentage = {} THEN 0
             ELSE float_sl(deal.stop_loss_percentage)) # 0
         THEN after_handler(acc, handle_update_deal(
                                     thebot, deal,
                                     CHOOSE r \in deal_db_data : TRUE,
                                     actual_profit_config, acc.db))
         ELSE [acc EXCEPT !.db = remove_active_deal(acc.db, deal.id)]
    ELSE acc

\* lines 270-306: the loop over the deals, from the i-th on; an exception
\* ends the pass where it is raised
RECURSIVE process_deal_loop(_, _, _, _)

\* lines 283-302 for the i-th deal, so being the effect of
\* handle_safety_orders, and on to the next deal
after_safety_orders(thebot, section_profit_config, i, deal, deal_db_data, acc, so) ==
    IF so.raised
    THEN [acc EXCEPT !.calls = @ \o so.calls, !.raised = TRUE]
    ELSE IF continues_after_safety_orders
    THEN process_deal_loop(thebot, section_profit_config, i + 1,
                           [acc EXCEPT !.calls = @ \o so.calls])
    ELSE process_deal_loop(
             thebot, section_profit_config, i + 1,
             trailing_branch(thebot, deal, deal_db_data,
                             get_config_for_profit(
                                 section_profit_config,
                                 deal.actual_profit_percentage),
                             [acc EXCEPT !.calls = @ \o so.calls]))

process_deal_loop(thebot, section_profit_config, i, acc) ==
    IF i > Len(thebot.active_deals) \/ acc.raised THEN acc
    ELSE IF strategy_is_handled(thebot.active_deals[i].strategy)
    THEN after_safety_orders(
             thebot, section_profit_config, i, thebot.active_deals[i],
             check_deal(acc.db, thebot.active_deals[i].id),
             [acc EXCEPT !.current_deals = Append(@, thebot.active_deals[i].id)],
             handle_safety_orders(thebot, thebot.active_deals[i],
                                  check_deal(acc.db, thebot.active_deals[i].id),
                                  acc.db))
    ELSE process_deal_loop(thebot, section_profit_config, i + 1, acc)

\* lines 308-321, on the accumulator the loop left
after_deal_loop(botid, acc) ==
    IF acc.raised
    THEN [calls |-> acc.calls, db |-> acc.db, raised |-> TRUE,
          monitored_deals |-> 0]
    ELSE [calls |-> acc.calls,
          db |-> remove_closed_deals(acc.db, botid, acc.current_deals),
          raised |-> FALSE,
          monitored_deals |-> acc.monitored_deals]

\* The outcome of a pass: the requests sent, the deals table, whether an
\* exception left the function, and the value returned otherwise.
process_deals(thebot, section_profit_config, db) ==
    IF thebot.active_deals # << >>
    THEN after_deal_loop(
             thebot.id,
             process_deal_loop(thebot, section_profit_config, 1,
                               [calls |-> << >>, db |-> db, raised |-> FALSE,
                                monitored_deals |-> 0,
                                current_deals |-> << >>]))
    ELSE [calls |-> << >>, db |-> remove_all_deals(db, thebot.id),
          raised |-> FALSE, monitored_deals |-> 0]

(***************************************************************************)
(* State.                                                                  *)
(***************************************************************************)
VARIABLES
    config,      \* the tsl_tp_ sections of the .ini file: botids, profit-config
    bots,        \* platform: bot id -> bot snapshot (api "bots"/"show")
    deals,       \* platform: deal id -> deal snapshot inside active_deals
    deals_db,    \* table deals: dealid -> row
    api_calls,   \* the requests the last operation sent, in order
    last,        \* the last operation: its inputs as it read them, its outcome
    calls_made,  \* number of operations applied so far
    bots_db,     \* table bots: botid -> next_processing_timestamp
    clock,       \* time.time()
    sweep,       \* the polling loop: where it is, starttime, deals_to_monitor
    passes       \* a history: per bot, what its last two passes read and sent

vars == << config, bots, deals, deals_db, api_calls, last, calls_made,
           bots_db, clock, sweep, passes >>

\* the state of the polling loop before its first sweep
LoopAtStart ==
    /\ bots_db = [b \in {} |-> 0]
    /\ clock = 0
    /\ sweep = [pc |-> "wait", section |-> 1, bot |-> 1, starttime |-> 0,
                deals_to_monitor |-> 0]
    /\ passes = [b \in {} |-> 0]

loop_vars == << bots_db, clock, sweep, passes >>

(***************************************************************************)
(* Inputs.                                                                 *)
(***************************************************************************)
Tier(activation, initial_stoploss, sl_factor, tp_factor) ==
    [activation_percentage |-> activation,
     initial_stoploss_percentage |-> initial_stoploss,
     sl_increment_factor |-> sl_factor,
     tp_increment_factor |-> tp_factor]

\* the two tiers of the example configuration, and variations of them
TierChoices ==
    { Tier(200, 50, 0, 0),
      Tier(300, 200, 4, 4),
      Tier(300, 50, 4, -4),
      Tier(-100, 50, 10, 0),
      Tier(200, 0, 0, 4) }

IsAscending(tl) ==
    \A i \in 1..(Len(tl) - 1) :
        tl[i].activation_percentage <= tl[i + 1].activation_percentage

SeqsUpTo(S, n) == UNION { [1..k -> S] : k \in 1..n }

\* profit-config lists: non-empty, sorted ascending by activation-percentage
TierLists == { tl \in SeqsUpTo(TierChoices, MaxTiers) : IsAscending(tl) }

Profits == { -150, -50, 200, 250, 300, 350 }
\* the average price is the base order price, or beyond it once safety
\* orders have filled
AveragePrices(strategy) == IF strategy = "short" THEN { 100, 110 } ELSE { 90, 100 }
BasePrice == 100
InitialTakeProfit == 150

Deal(id, bot_id, strategy, profit, average_price, current_price, sl, tp, max_so) ==
    [id |-> id,
     bot_id |-> bot_id,
     strategy |-> strategy,
     actual_profit_percentage |-> profit,
     stop_loss_percentage |-> sl,
     take_profit |-> tp,
     current_price |-> current_price,
     base_order_average_price |-> BasePrice,
     bought_average_price |-> IF strategy = "short" THEN 0 ELSE average_price,
     sold_average_price |-> IF strategy = "short" THEN average_price ELSE 0,
     max_safety_orders |-> max_so,
     completed_safety_orders_count |-> 0]

Bot(id, active_deals, so_volume, so_step, volume_coefficient, step_coefficient) ==
    [id |-> id,
     active_deals |-> active_deals,
     safety_order_volume |-> so_volume,
     safety_order_step_percentage |-> so_step,
     martingale_volume_coefficient |-> volume_coefficient,
     martingale_step_coefficient |-> step_coefficient]

Section(botids, profit_config) ==
    [botids |-> botids, profit_config |-> profit_config]

EmptyTable == [d \in {} |-> {}]

\* The platform after it answered the requests (answers[i] is TRUE when
\* request i succeeded): a successful update_deal sets the deal's stop-loss
\* and take-profit.
PlatformAfter(ds, calls, answers) ==
    [d \in DOMAIN ds |->
        LET hits == { i \in 1..Len(calls) :
                        /\ calls[i].action = "update_deal"
                        /\ calls[i].deal_id = d
                        /\ answers[i] }
        IN  IF hits = {} THEN ds[d]
            ELSE LET c == calls[CHOOSE i \in hits : \A j \in hits : j <= i]
                 IN  [ds[d] EXCEPT
                         !.stop_loss_percentage = {c.stop_loss_percentage},
                         !.take_profit = c.take_profit]]

AllAnswers(calls) == [1..Len(calls) -> BOOLEAN]

(***************************************************************************)
(* SpecSelector: get_config_for_profit applied to every ascending list.    *)
(***************************************************************************)
InitSelector ==
    /\ \E tl \in TierLists : config = << Section(<< 1 >>, tl) >>
    /\ bots = [b \in {1} |-> Bot(1, << 1 >>, 10, 50, 15, 12)]
    /\ \E p \in Profits :
           deals = [d \in {1} |->
                       Deal(1, 1, "long", p, BasePrice, BasePrice, {},
                            InitialTakeProfit, 0)]
    /\ deals_db = EmptyTable
    /\ api_calls = << >>
    /\ last = [op |-> "none"]
    /\ calls_made = 0
    /\ LoopAtStart

SelectConfig(d) ==
    /\ calls_made = 0
    /\ last' = [op |-> "get_config_for_profit",
                section_profit_config |-> config[1].profit_config,
                current_profit |-> deals[d].actual_profit_percentage,
                profit_config |->
                    get_config_for_profit(config[1].profit_config,
                                          deals[d].actual_profit_percentage)]
    /\ calls_made' = 1
    /\ UNCHANGED << config, bots, deals, deals_db, api_calls, loop_vars >>

NextSelector == \E d \in DOMAIN deals : SelectConfig(d)

SpecSelector == InitSelector /\ [][NextSelector]_vars

(***************************************************************************)
(* SpecTrailing: the handlers of the trailing branch of process_deals      *)
(* (lines 287-302), applied to one deal the way that branch dispatches     *)
(* them.  Each call reads a fresh snapshot of the deal: the platform       *)
(* reports another profit and average price, and the stop-loss and         *)
(* take-profit it holds, unless somebody cleared the stop-loss.            *)
(***************************************************************************)
\* the example configuration; a higher tier with a smaller initial stop-loss
\* and a negative take-profit factor; a tier below zero; a tier whose initial
\* stop-loss is 0; a tier whose two factors are negative
TrailingConfigs ==
    { << Tier(200, 50, 0, 0), Tier(300, 200, 4, 4) >>,
      << Tier(200, 50, -10, -4) >>,
      << Tier(200, 50, 0, 0), Tier(300, 50, 4, -4) >>,
      << Tier(-100, 50, 10, 0), Tier(300, 200, 4, 4) >>,
      << Tier(200, 0, 0, 4) >> }

InitTrailing ==
    /\ \E tl \in TrailingConfigs : config = << Section(<< 1 >>, tl) >>
    /\ bots = [b \in {1} |-> Bot(1, << 1 >>, 10, 50, 15, 12)]
    /\ \E st \in {"long", "short"} :
           deals = [d \in {1} |->
                       Deal(1, 1, st, 0, BasePrice, BasePrice, {},
                            InitialTakeProfit, 0)]
    /\ deals_db = EmptyTable
    /\ api_calls = << >>
    /\ last = [op |-> "none"]
    /\ calls_made = 0
    /\ LoopAtStart

\* what the platform may report for the stop-loss of a deal that holds sl
ReportedStopLoss(sl) == { sl, {0}, {} }

\* the snapshot of deal d at a poll
Snapshot(d, p, a, sl) ==
    [deals[d] EXCEPT
        !.actual_profit_percentage = p,
        !.bought_average_price = IF deals[d].strategy = "short" THEN 0 ELSE a,
        !.sold_average_price = IF deals[d].strategy = "short" THEN a ELSE 0,
        !.stop_loss_percentage = sl]

Snapshots(d) ==
    { Snapshot(d, p, a, sl) :
        p \in Profits, a \in AveragePrices(deals[d].strategy),
        sl \in ReportedStopLoss(deals[d].stop_loss_percentage) }

SelectedConfig(deal) ==
    get_config_for_profit(config[1].profit_config,
                          deal.actual_profit_percentage)

\* the platform's answer to the request of an effect, if it sent one
Answers(eff) == IF eff.calls = << >> THEN {TRUE} ELSE BOOLEAN

Apply(op, deal, cfg, eff, ok) ==
    /\ api_calls' = eff.calls
    /\ deals_db' = eff.db
    /\ deals' = PlatformAfter([deals EXCEPT ![deal.id] = deal], eff.calls,
                              [i \in 1..Len(eff.calls) |-> ok])
    /\ last' = [op |-> op, deal |-> deal, profit_config |-> cfg,
                row |-> Rows(deals_db, deal.id), raised |-> eff.raised,
                ok |-> ok]
    /\ calls_made' = calls_made + 1
    /\ UNCHANGED << config, bots, loop_vars >>

\* lines 287-290: no row and a tier selected
TrailingNewDeal(d) ==
    /\ calls_made < MaxCalls
    /\ \E deal \in Snapshots(d) :
          /\ deal.strategy \in {"short", "long"}
          /\ Rows(deals_db, d) = {}
          /\ SelectedConfig(deal) # EmptyConfig
          /\ LET eff == handle_new_deal(bots[deal.bot_id], deal,
                                        SelectedConfig(deal), deals_db)
             IN  \E ok \in Answers(eff) :
                    Apply("handle_new_deal", deal, SelectedConfig(deal), eff, ok)

\* lines 291-299: a row, and the platform reports a stop-loss other than 0.0
TrailingUpdateDeal(d) ==
    /\ calls_made < MaxCalls
    /\ \E deal \in Snapshots(d) :
          /\ deal.strategy \in {"short", "long"}
          /\ Rows(deals_db, d) # {}
          /\ deal.stop_loss_percentage \notin { {}, {0} }
          /\ LET eff == handle_update_deal(bots[deal.bot_id], deal, deals_db[d],
                                           SelectedConfig(deal), deals_db)
             IN  \E ok \in Answers(eff) :
                    Apply("handle_update_deal", deal, SelectedConfig(deal), eff,
                          ok)

\* lines 300-302: a row, and the platform reports no stop-loss
TrailingRemoveDeal(d) ==
    /\ calls_made < MaxCalls
    /\ \E deal \in Snapshots(d) :
          /\ deal.strategy \in {"short", "long"}
          /\ Rows(deals_db, d) # {}
          /\ deal.stop_loss_percentage \in { {}, {0} }
          /\ Apply("remove_active_deal", deal, SelectedConfig(deal),
                   Effect(<< >>, remove_active_deal(deals_db, d), FALSE), TRUE)

NextTrailing ==
    \/ \E d \in DOMAIN deals : TrailingNewDeal(d)
    \/ \E d \in DOMAIN deals : TrailingUpdateDeal(d)
    \/ \E d \in DOMAIN deals : TrailingRemoveDeal(d)

SpecTrailing == InitTrailing /\ [][NextTrailing]_vars

(***************************************************************************)
(* SpecLadder: handle_safety_orders applied to one deal of one bot, for    *)
(* every safety-order configuration and deal snapshot of the input sets.   *)
(***************************************************************************)
StepPercentages == { 100, 500 }
Coefficients == { 0, 10, 12, 15 }
LadderProfits == { -1000, 0, 200 }
CurrentPrices == { 80, 89, 90, 95, 99, 100, 110 }

InitLadder ==
    /\ config = << Section(<< 1 >>, << Tier(200, 50, 0, 0) >>) >>
    /\ \E step \in StepPercentages, vc \in Coefficients, sc \in Coefficients :
           bots = [b \in {1} |-> Bot(1, << 1 >>, 10, step, vc, sc)]
    /\ \E st \in {"long", "short"}, p \in LadderProfits, cp \in CurrentPrices,
          m \in 0..MaxSO :
           deals = [d \in {1} |->
                       Deal(1, 1, st, p, BasePrice, cp, {}, InitialTakeProfit, m)]
    /\ deals_db = EmptyTable
    /\ api_calls = << >>
    /\ last = [op |-> "none"]
    /\ calls_made = 0
    /\ LoopAtStart

LadderCalled(thebot, deal, eff, SOData) ==
    /\ api_calls' = eff.calls
    /\ deals_db' = eff.db
    /\ last' = [op |-> "handle_safety_orders", deal |-> deal, bot |-> thebot,
                SOData |-> SOData, raised |-> eff.raised]

LadderCall(d) ==
    /\ calls_made = 0
    /\ LadderCalled(bots[deals[d].bot_id], deals[d],
                    handle_safety_orders(bots[deals[d].bot_id], deals[d],
                                         Rows(deals_db, d), deals_db),
                    calculate_safety_order(bots[deals[d].bot_id], deals[d]))
    /\ calls_made' = 1
    /\ UNCHANGED << config, bots, deals, loop_vars >>

NextLadder == \E d \in DOMAIN deals : LadderCall(d)

SpecLadder == InitLadder /\ [][NextLadder]_vars

(***************************************************************************)
(* SpecStopLoss: calculate_sl_percentage applied to one deal and one tier,  *)
(* with profits of two decimals and average prices at and off the base     *)
(* order price.                                                            *)
(***************************************************************************)
StopLossTiers ==
    { Tier(200, 50, 0, 0), Tier(300, 200, 4, 4), Tier(200, 50, 4, 0),
      Tier(200, 0, 10, 0) }

StopLossProfits == { 200, 233, 250, 301, 333, 350 }

StopLossAveragePrices == { 90, 100, 110 }

InitStopLoss ==
    /\ \E t \in StopLossTiers : config = << Section(<< 1 >>, << t >>) >>
    /\ bots = [b \in {1} |-> Bot(1, << 1 >>, 10, 50, 15, 12)]
    /\ \E st \in {"long", "short"}, p \in StopLossProfits,
          a \in StopLossAveragePrices :
           deals = [d \in {1} |->
                       Deal(1, 1, st, p, a, BasePrice, {}, InitialTakeProfit, 0)]
    /\ deals_db = EmptyTable
    /\ api_calls = << >>
    /\ last = [op |-> "none"]
    /\ calls_made = 0
    /\ LoopAtStart

\* the call as handle_new_deal makes it (lines 381-393): activation_diff is
\* the profit less the tier's activation-percentage
CalculateStopLoss(d) ==
    /\ calls_made = 0
    /\ LET profit_config == config[1].profit_config[1]
           activation_diff ==
               deals[d].actual_profit_percentage
               - profit_config.activation_percentage
       IN  last' = [op |-> "calculate_sl_percentage",
                    deal |-> deals[d],
                    profit_config |-> profit_config,
                    activation_diff |-> activation_diff,
                    sl_data |-> calculate_sl_percentage(
                                    deals[d], profit_config, activation_diff)]
    /\ calls_made' = 1
    /\ UNCHANGED << config, bots, deals, deals_db, api_calls, loop_vars >>

NextStopLoss == \E d \in DOMAIN deals : CalculateStopLoss(d)

SpecStopLoss == InitStopLoss /\ [][NextStopLoss]_vars

(***************************************************************************)
(* SpecConversions: the four conversions of PercentageMath applied to two  *)
(* stop-loss prices and one reference price.                               *)
(***************************************************************************)
\* reference prices, in price units
ReferencePrices == { 80, 100 }

\* stop-loss prices around a reference price, as numerators over PriceDen:
\* at the reference, one numerator off it, at odd multiples of half a
\* hundredth of a percent of 100 (where round(x, 2) has a tie), and 1% off
PriceOffsets == { -100000, -2500, -1500, -500, -1, 0, 1, 500, 1500, 2500, 100000 }

InitConversions ==
    /\ config = << >>
    /\ bots = EmptyTable
    /\ deals = EmptyTable
    /\ deals_db = EmptyTable
    /\ api_calls = << >>
    /\ \E ref \in ReferencePrices, o1 \in PriceOffsets, o2 \in PriceOffsets :
           last = [op |-> "prices", ref |-> ref,
                   sl_price |-> ref * PriceDen + o1,
                   other_sl_price |-> ref * PriceDen + o2]
    /\ calls_made = 0
    /\ LoopAtStart

\* the four conversions of one stop-loss price
Conversions(sl_price, ref) ==
    [base_short |-> calculate_slpercentage_base_price_short(sl_price, ref),
     base_long |-> calculate_slpercentage_base_price_long(sl_price, ref),
     average_short |->
         calculate_average_price_sl_percentage_short(sl_price, ref),
     average_long |->
         calculate_average_price_sl_percentage_long(sl_price, ref)]

Convert ==
    /\ last.op = "prices"
    /\ last' = [op |-> "conversions", ref |-> last.ref,
                sl_price |-> last.sl_price,
                other_sl_price |-> last.other_sl_price,
                of_sl_price |-> Conversions(last.sl_price, last.ref),
                of_other |-> Conversions(last.other_sl_price, last.ref)]
    /\ calls_made' = 1
    /\ UNCHANGED << config, bots, deals, deals_db, api_calls, loop_vars >>

NextConversions == Convert

SpecConversions == InitConversions /\ [][NextConversions]_vars

(***************************************************************************)
(* Spec: the program.  The polling loop sweeps the sections of the         *)
(* configuration and the bots of each section; the platform answers each   *)
(* request, and reports the deals of a bot as they are at that moment.     *)
(***************************************************************************)
ExampleTiers == << Tier(200, 50, 0, 0), Tier(300, 200, 4, 4) >>

\* one section for both bots; a first section with an empty profit-config;
\* a first section whose only tier activates below zero
MainConfigs ==
    { << Section(<< 1, 2 >>, ExampleTiers) >>,
      << Section(<< 1 >>, << >>), Section(<< 2 >>, ExampleTiers) >>,
      << Section(<< 1 >>, << Tier(-100, 50, 10, 0) >>),
         Section(<< 2 >>, ExampleTiers) >> }

\* << actual_profit_percentage, current_price,
\* completed_safety_orders_count >> the platform may report
MarketStates ==
    { << -1000, 90, 0 >>, << -1000, 90, 1 >>, << -50, 99, 0 >>,
      << 100, 101, 0 >>, << 200, 102, 0 >> }

\* a row written by an earlier run
StoredRow(bot_id) ==
    [botid |-> bot_id, last_profit_percentage |-> 200,
     last_readable_sl_percentage |-> 50, last_readable_tp_percentage |-> 150]

\* Deals 1 and 2 belong to bot 1, deal 3 to bot 2; deal 1 is long, deal 2
\* short, or one of them has a strategy the program does not know; deals
\* holds what does not move with the market: the strategy, the stop-loss and
\* the take-profit.  The deals table is the database file as earlier runs
\* left it: empty, or holding the rows of deal 1 and of deal 4, a deal of
\* bot 1 that has closed since.
Init ==
    /\ config \in MainConfigs
    /\ bots = [b \in {1, 2} |-> Bot(b, << >>, 10, 500, 15, 12)]
    /\ \E unknown \in {0, 1, 2}, sl1 \in { {}, {-50} } :
           deals = [d \in {1, 2, 3} |->
                       Deal(d, IF d = 3 THEN 2 ELSE 1,
                            IF d = unknown THEN "unknown"
                            ELSE IF d = 2 THEN "short" ELSE "long",
                            -50, BasePrice, 99,
                            IF d = 1 THEN sl1 ELSE {},
                            InitialTakeProfit, 2)]
    /\ deals_db \in { EmptyTable, [d \in {1, 4} |-> StoredRow(1)] }
    /\ api_calls = << >>
    /\ last = [op |-> "none"]
    /\ calls_made = 0
    /\ LoopAtStart

\* settings check-interval and monitor-interval: the defaults, 120 and 60
\* seconds, in minutes
CheckInterval == 2
MonitorInterval == 1
\* the clock stops here
MaxTime == 3

get_bot_next_process_time(db, bot_id, now) ==
    IF bot_id \in DOMAIN db THEN db[bot_id] ELSE now

set_bot_next_process_time(db, bot_id, new_time) ==
    [b \in DOMAIN db \cup {bot_id} |-> IF b = bot_id THEN new_time ELSE db[b]]

\* the bots table after get_bot_next_process_time: a missing record is created
bots_db_after_get(db, bot_id, now) ==
    IF bot_id \in DOMAIN db THEN db
    ELSE set_bot_next_process_time(db, bot_id, now)

abs(x) == IF x < 0 THEN -x ELSE x

\* a test that fetches every bot in every sweep, for comparison
bot_always_due(starttime, nextprocesstime, check_interval) == TRUE

\* lines 934-936
bot_is_due(starttime, nextprocesstime, check_interval) ==
    \/ starttime >= nextprocesstime
    \/ abs(nextprocesstime - starttime) > check_interval

\* time.time() inside a sweep: the sweep's start time, or later
Nows == { t \in { sweep.starttime, sweep.starttime + 1 } : t <= MaxTime }

\* the snapshots the platform may return for bot b: any of its deals, in
\* the order of their ids, each in one of the market states
DealsOf(b) == { d \in DOMAIN deals : deals[d].bot_id = b }

DealSnapshots(b) ==
    { [deals[d] EXCEPT !.actual_profit_percentage = m[1],
                       !.current_price = m[2],
                       !.completed_safety_orders_count = m[3]] :
        d \in DealsOf(b), m \in MarketStates }

ActiveDeals(b) ==
    { sq \in UNION { [1..k -> DealSnapshots(b)] :
                        k \in 0..Cardinality(DealsOf(b)) } :
        \A i \in 1..(Len(sq) - 1) : sq[i].id < sq[i + 1].id }

BotData(b, active_deals) == [bots[b] EXCEPT !.active_deals = active_deals]

SectionAt(sw) == config[sw.section]
BotAt(sw) == SectionAt(sw).botids[sw.bot]

\* the next bot of the section, or the first bot of the next section
Advance(sw) ==
    IF sw.bot < Len(SectionAt(sw).botids)
    THEN [sw EXCEPT !.bot = @ + 1]
    ELSE [sw EXCEPT !.section = @ + 1, !.bot = 1]

InSection ==
    /\ sweep.pc = "sweep"
    /\ sweep.section <= Len(config)

\* a loop that skips no section, for comparison
no_section_skipped(sectionprofitconfig) == FALSE

\* line 920: the section has an empty profit-config
section_is_skipped(sectionprofitconfig) == Len(sectionprofitconfig) = 0

\* lines 902-913: a sweep begins
SweepStart ==
    /\ sweep.pc = "wait"
    /\ sweep' = [pc |-> "sweep", section |-> 1, bot |-> 1,
                 starttime |-> clock, deals_to_monitor |-> 0]
    /\ last' = [op |-> "sweep_start"]
    /\ api_calls' = << >>
    /\ UNCHANGED << config, bots, deals, deals_db, calls_made, bots_db, clock,
                    passes >>

\* lines 921-926: a section with an empty profit-config is skipped
SkipSection ==
    /\ InSection
    /\ section_is_skipped(SectionAt(sweep).profit_config)
    /\ sweep' = [sweep EXCEPT !.section = @ + 1, !.bot = 1]
    /\ last' = [op |-> "skip_section", section |-> sweep.section]
    /\ api_calls' = << >>
    /\ UNCHANGED << config, bots, deals, deals_db, calls_made, bots_db, clock,
                    passes >>

\* lines 930-936 and 957-961: the bot is not due in this sweep
BotNotDue ==
    /\ InSection
    /\ ~section_is_skipped(SectionAt(sweep).profit_config)
    /\ \E now \in Nows :
       LET bot == BotAt(sweep)
           nextprocesstime == get_bot_next_process_time(bots_db, bot, now)
       IN  /\ ~bot_is_due(sweep.starttime, nextprocesstime, CheckInterval)
           /\ bots_db' = bots_db_after_get(bots_db, bot, now)
           /\ last' = [op |-> "bot_not_due", bot |-> bot,
                       section |-> sweep.section,
                       starttime |-> sweep.starttime,
                       nextprocesstime |-> nextprocesstime]
    /\ sweep' = Advance(sweep)
    /\ api_calls' = << >>
    /\ UNCHANGED << config, bots, deals, deals_db, calls_made, clock, passes >>

\* lines 937-942 and 952-956: the request for the bot fails
BotRequestFails ==
    /\ InSection
    /\ ~section_is_skipped(SectionAt(sweep).profit_config)
    /\ \E now \in Nows :
       LET bot == BotAt(sweep)
           nextprocesstime == get_bot_next_process_time(bots_db, bot, now)
       IN  /\ bot_is_due(sweep.starttime, nextprocesstime, CheckInterval)
           /\ bots_db' = bots_db_after_get(bots_db, bot, now)
           /\ last' = [op |-> "bot_request_failed", bot |-> bot,
                       section |-> sweep.section,
                       starttime |-> sweep.starttime,
                       nextprocesstime |-> nextprocesstime]
    /\ sweep' = Advance(sweep)
    /\ api_calls' = << [action |-> "show_bot", bot_id |-> BotAt(sweep),
                        ok |-> FALSE] >>
    /\ UNCHANGED << config, bots, deals, deals_db, calls_made, clock, passes >>

\* lines 943-951, r being the outcome of process_deals and answers the
\* platform's answers to its requests
AfterProcessDeals(bot, nextprocesstime, db1, active_deals, r, answers) ==
    /\ api_calls' =
          << [action |-> "show_bot", bot_id |-> bot, ok |-> TRUE] >>
          \o [i \in 1..Len(r.calls) |-> [call |-> r.calls[i], ok |-> answers[i]]]
    /\ deals_db' = r.db
    /\ deals' = PlatformAfter(deals, r.calls, answers)
    /\ bots_db' =
          IF r.raised THEN db1
          ELSE set_bot_next_process_time(
                   db1, bot,
                   sweep.starttime + (IF r.monitored_deals = 0
                                      THEN CheckInterval ELSE MonitorInterval))
    /\ sweep' =
          IF r.raised THEN [sweep EXCEPT !.pc = "crashed"]
          ELSE [Advance(sweep) EXCEPT !.deals_to_monitor = @ + r.monitored_deals]
    /\ last' = [op |-> "process_deals", bot |-> bot,
                section |-> sweep.section,
                starttime |-> sweep.starttime,
                nextprocesstime |-> nextprocesstime,
                active_deals |-> active_deals,
                section_profit_config |-> SectionAt(sweep).profit_config,
                db_before |-> deals_db,
                raised |-> r.raised,
                monitored_deals |-> r.monitored_deals]

AnsweredProcessDeals(bot, nextprocesstime, db1, active_deals, r) ==
    \E answers \in AllAnswers(r.calls) :
        AfterProcessDeals(bot, nextprocesstime, db1, active_deals, r, answers)

\* lines 937-951: the bot is fetched and process_deals runs on its deals; an
\* exception that leaves process_deals ends the program
ProcessBot ==
    /\ InSection
    /\ ~section_is_skipped(SectionAt(sweep).profit_config)
    /\ \E now \in Nows :
          /\ bot_is_due(sweep.starttime,
                        get_bot_next_process_time(bots_db, BotAt(sweep), now),
                        CheckInterval)
          /\ \E active_deals \in ActiveDeals(BotAt(sweep)) :
                AnsweredProcessDeals(
                    BotAt(sweep),
                    get_bot_next_process_time(bots_db, BotAt(sweep), now),
                    bots_db_after_get(bots_db, BotAt(sweep), now),
                    active_deals,
                    process_deals(BotData(BotAt(sweep), active_deals),
                                  SectionAt(sweep).profit_config, deals_db))
    /\ UNCHANGED << config, bots, calls_made, clock >>

BotProcessed == ProcessBot /\ UNCHANGED passes

\* lines 963-965: the sweep is over and the loop sleeps for the interval;
\* elapsed is the time the sweep itself took
SweepEnd ==
    /\ sweep.pc = "sweep"
    /\ sweep.section > Len(config)
    /\ LET timeint == IF sweep.deals_to_monitor = 0 THEN CheckInterval
                      ELSE MonitorInterval
       IN  \E elapsed \in {0, 1} :
              /\ clock + timeint + elapsed <= MaxTime
              /\ clock' = clock + timeint + elapsed
    /\ sweep' = [sweep EXCEPT !.pc = "wait"]
    /\ last' = [op |-> "sweep_end"]
    /\ api_calls' = << >>
    /\ UNCHANGED << config, bots, deals, deals_db, calls_made, bots_db, passes >>

Next ==
    \/ SweepStart
    \/ SkipSection
    \/ BotNotDue
    \/ BotRequestFails
    \/ BotProcessed
    \/ SweepEnd

Spec == Init /\ [][Next]_vars

(***************************************************************************)
(* SpecSweeps: the program again, with a record of what the last two       *)
(* passes of each bot read and sent.                                       *)
(***************************************************************************)
InitSweeps ==
    /\ config \in MainConfigs
    /\ bots = [b \in {1, 2} |-> Bot(b, << >>, 10, 500, 15, 12)]
    /\ deals = [d \in {1, 2, 3} |->
                   Deal(d, IF d = 3 THEN 2 ELSE 1,
                        IF d = 2 THEN "short" ELSE "long",
                        -50, BasePrice, 99, {}, InitialTakeProfit, 2)]
    /\ deals_db = [d \in {1, 4} |-> StoredRow(1)]
    /\ api_calls = << >>
    /\ last = [op |-> "none"]
    /\ calls_made = 0
    /\ LoopAtStart

\* the passes of a bot after one more: the last two, the latest last
passes_after(earlier, pass) ==
    IF earlier = << >> THEN << pass >> ELSE << earlier[Len(earlier)], pass >>

BotProcessedRecorded ==
    /\ ProcessBot
    /\ passes' =
          [b \in DOMAIN passes \cup {last'.bot} |->
              IF b = last'.bot
              THEN passes_after(
                       IF b \in DOMAIN passes THEN passes[b] ELSE << >>,
                       [active_deals |-> last'.active_deals,
                        requests |-> [i \in 1..(Len(api_calls') - 1) |->
                                         api_calls'[i + 1].call]])
              ELSE passes[b]]

NextSweeps ==
    \/ SweepStart
    \/ SkipSection
    \/ BotNotDue
    \/ BotRequestFails
    \/ BotProcessedRecorded
    \/ SweepEnd

SpecSweeps == InitSweeps /\ [][NextSweeps]_vars

(***************************************************************************)
(* Claims.                                                                 *)
(***************************************************************************)
UpdateCalls == { api_calls[i] : i \in 1..Len(api_calls) }

\* C1: for an ascending tier list and any profit, get_config_for_profit never
\* returns a tier whose activation exceeds the profit, and when some tier has
\* activation <= profit it returns a tier of the list with the highest such
\* activation.
C1_SelectorPicksHighest ==
    last.op = "get_config_for_profit" =>
        LET tl == last.section_profit_config
            p == last.current_profit
            r == last.profit_config
            eligible == { i \in 1..Len(tl) : tl[i].activation_percentage <= p }
        IN  /\ r # EmptyConfig => r.activation_percentage <= p
            /\ eligible # {} =>
                  /\ r # EmptyConfig
                  /\ \E i \in eligible : r = tl[i]
                  /\ \A j \in eligible :
                        tl[j].activation_percentage <= r.activation_percentage

C1_Witness ==
    /\ last.op = "get_config_for_profit"
    /\ Len(last.section_profit_config) = 2
    /\ last.section_profit_config[1].activation_percentage
           < last.section_profit_config[2].activation_percentage
    /\ last.section_profit_config[2].activation_percentage < last.current_profit
    /\ last.profit_config = last.section_profit_config[2]

\* C2: every SL/TP update pushed by handle_new_deal or handle_update_deal
\* carries a take-profit that is at least the deal's current take-profit.
C2_TakeProfitNeverDecreased ==
    last.op \in {"handle_new_deal", "handle_update_deal"} =>
        \A c \in UpdateCalls :
            c.action = "update_deal" => c.take_profit >= last.deal.take_profit

\* the stop-loss price the platform derives from a base-axis percentage, in
\* hundredths of a price unit times 100
StopLossPrice(deal, sl_percentage) ==
    IF deal.strategy = "short"
    THEN deal.base_order_average_price * (100 * PctScale + sl_percentage)
    ELSE deal.base_order_average_price * (100 * PctScale - sl_percentage)

\* C3: every stop-loss pushed by a trailing update is at least as favourable
\* as the stop-loss currently set on the deal: its price is not lower for a
\* long deal and not higher for a short deal.
C3_StopLossOnlyMovesForward ==
    last.op = "handle_update_deal" =>
        \A c \in UpdateCalls :
            c.action = "update_deal" =>
                LET old == StopLossPrice(last.deal,
                                         float_sl(last.deal.stop_loss_percentage))
                    new == StopLossPrice(last.deal, c.stop_loss_percentage)
                IN  IF last.deal.strategy = "short" THEN new <= old
                    ELSE new >= old

\* C4: when a row exists and actual_profit_percentage <= last_profit_percentage,
\* handle_update_deal sends no request and leaves the row as it was.
C4_NoUpdateWithoutIncrease ==
    (/\ last.op = "handle_update_deal"
     /\ \A r \in last.row :
            last.deal.actual_profit_percentage <= r.last_profit_percentage)
    => /\ api_calls = << >>
       /\ Rows(deals_db, last.deal.id) = last.row
       /\ ~last.raised

C4_Witness ==
    /\ last.op = "handle_update_deal"
    /\ \E r \in last.row :
           /\ last.deal.actual_profit_percentage = r.last_profit_percentage
           /\ last.deal.bought_average_price = 90
    /\ api_calls = << >>
    /\ Rows(deals_db, last.deal.id) = last.row

\* the requests process_deals sent in the pass last records
PassCalls == { api_calls[i].call : i \in 2..Len(api_calls) }

\* the long and short deals of the pass last records
PassDeals ==
    { last.active_deals[i] : i \in 1..Len(last.active_deals) }

\* C5: in a pass of process_deals, for a long or short deal that has no row
\* and for which a tier is selected, with a computed base-price stop-loss
\* other than 0.00, the request handle_new_deal builds is sent, and the pass
\* leaves the row handle_new_deal writes.
C5_FirstActivationFires ==
    (last.op = "process_deals" /\ ~last.raised) =>
        \A deal \in PassDeals :
            LET cfg == get_config_for_profit(last.section_profit_config,
                                             deal.actual_profit_percentage)
            IN  (/\ deal.strategy \in {"short", "long"}
                 /\ Rows(last.db_before, deal.id) = {}
                 /\ cfg # EmptyConfig
                 /\ calculate_sl_percentage(
                        deal, cfg,
                        deal.actual_profit_percentage
                            - cfg.activation_percentage)[3] # 0)
                => LET eff == handle_new_deal(
                                  BotData(last.bot, last.active_deals), deal,
                                  cfg, last.db_before)
                   IN  /\ eff.calls[1] \in PassCalls
                       /\ Rows(deals_db, deal.id)
                              = Rows(eff.db, deal.id)
                       /\ \A r \in Rows(deals_db, deal.id) :
                              r.last_profit_percentage
                                  = deal.actual_profit_percentage

\* C6: in a pass of process_deals, a long or short deal that has a row and
\* whose reported stop-loss percentage is 0.0 or absent has its row deleted,
\* and no SL/TP update is sent for it.
C6_StaleRowDeleted ==
    (last.op = "process_deals" /\ ~last.raised) =>
        \A deal \in PassDeals :
            (/\ deal.strategy \in {"short", "long"}
             /\ Rows(last.db_before, deal.id) # {}
             /\ deal.stop_loss_percentage \in { {}, {0} })
            => /\ Rows(deals_db, deal.id) = {}
               /\ \A c \in PassCalls :
                      c.action = "update_deal" => c.deal_id # deal.id

AddFundsCalls == { c \in UpdateCalls : c.action = "add_funds" }

\* C7: on a deal with actual_profit_percentage >= 0, calculate_safety_order
\* returns normally with so_count 0 and handle_safety_orders sends no
\* add-funds request.
C7_NoLadderWithoutLoss ==
    (last.op = "handle_safety_orders"
     /\ last.deal.actual_profit_percentage >= 0)
    => /\ ~last.SOData.raised
       /\ last.SOData.SOCounter = 0
       /\ AddFundsCalls = {}

\* C8: the so_count calculate_safety_order returns is never greater than the
\* deal's max_safety_orders, max_safety_orders = 0 included.
C8_CountWithinMax ==
    (last.op = "handle_safety_orders" /\ ~last.SOData.raised)
    => last.SOData.SOCounter <= last.deal.max_safety_orders

\* C9: calculate_safety_order ends, and the body of its loop runs at most
\* max(0, max_safety_orders - 1) times, whatever the coefficients.
C9_LoopBounded ==
    last.op = "handle_safety_orders" =>
        last.SOData.iterations
            <= IF last.deal.max_safety_orders >= 1
               THEN last.deal.max_safety_orders - 1 ELSE 0

C9_Witness ==
    /\ last.op = "handle_safety_orders"
    /\ last.deal.max_safety_orders >= 3
    /\ last.SOData.iterations = last.deal.max_safety_orders - 1
    /\ last.bot.martingale_step_coefficient = 0

\* the ladder as the specification states it
RECURSIVE RatPower(_, _)
RatPower(a, k) == IF k = 0 THEN Rat(1, 1) ELSE RatMul(a, RatPower(a, k - 1))

StepVolume(thebot, k) ==
    RatMul(Rat(thebot.safety_order_volume, 1),
           RatPower(Rat(thebot.martingale_volume_coefficient, FactorScale),
                    k - 1))

StepDrop(thebot, k) ==
    RatMul(Rat(thebot.safety_order_step_percentage, PctScale),
           RatPower(Rat(thebot.martingale_step_coefficient, FactorScale),
                    k - 1))

RECURSIVE SumVolume(_, _)
SumVolume(thebot, n) ==
    IF n = 0 THEN Zero ELSE RatAdd(SumVolume(thebot, n - 1), StepVolume(thebot, n))

RECURSIVE SumDrop(_, _)
SumDrop(thebot, n) ==
    IF n = 0 THEN Zero ELSE RatAdd(SumDrop(thebot, n - 1), StepDrop(thebot, n))

\* C10: a result with so_count = n > 0 has so_volume = the sum of the volumes
\* of steps 1..n and so_price = base_order_average_price * (100 - the
\* cumulative drop of steps 1..n) / 100; a rejected step adds to neither.
C10_CumulativeVolumeLastPrice ==
    (last.op = "handle_safety_orders" /\ ~last.SOData.raised
     /\ last.SOData.SOCounter > 0)
    => LET n == last.SOData.SOCounter
       IN  /\ last.SOData.SO_Volume = SumVolume(last.bot, n)
           /\ RatMul(last.SOData.SO_Price, Rat(100, 1))
                  = RatMul(Rat(last.deal.base_order_average_price, 1),
                           RatAdd(Rat(100, 1),
                                  RatMul(Rat(-1, 1), SumDrop(last.bot, n))))

C10_Witness ==
    /\ last.op = "handle_safety_orders"
    /\ ~last.SOData.raised
    /\ last.SOData.SOCounter = 2
    /\ last.SOData.iterations = 2
    /\ last.bot.martingale_volume_coefficient = 15
    /\ last.bot.martingale_step_coefficient = 12
    /\ last.SOData.SO_Volume = Rat(25, 1)

\* C11: after process_deals returns for a bot, every row stored with that
\* botid is the row of a deal of the active_deals list of that pass, also
\* when the list is empty or holds no long or short deal.
C11_RowsOfVanishedDealsRemoved ==
    (last.op = "process_deals" /\ ~last.raised) =>
        \A d \in DOMAIN deals_db :
            deals_db[d].botid = last.bot
                => \E deal \in PassDeals : deal.id = d

\* the sweep stands at the bot that follows the bot last records
SweepAtNextBot ==
    LET ids == config[last.section].botids
        i == CHOOSE k \in 1..Len(ids) : ids[k] = last.bot
    IN  /\ sweep.pc = "sweep"
        /\ IF i < Len(ids)
           THEN sweep.section = last.section /\ sweep.bot = i + 1
           ELSE sweep.section = last.section + 1 /\ sweep.bot = 1

\* a request of the pass last records was answered with an error
SomeRequestFailed == \E i \in 2..Len(api_calls) : ~api_calls[i].ok

\* C12: a failed request does not end the sweep.  When the request for a bot
\* fails, the sweep goes on with the next bot and the bot keeps the
\* next_processing_timestamp the sweep read; when a request for a deal fails,
\* every long or short deal of the pass still has its safety-order request
\* sent, and the sweep goes on with the next bot.
C12_FailedRequestDoesNotAbort ==
    /\ last.op = "bot_request_failed" =>
          /\ SweepAtNextBot
          /\ bots_db[last.bot] = last.nextprocesstime
    /\ (last.op = "process_deals" /\ SomeRequestFailed) =>
          /\ ~last.raised
          /\ SweepAtNextBot
          /\ \A deal \in PassDeals :
                deal.strategy \in {"short", "long"} =>
                    LET so == handle_safety_orders(
                                  BotData(last.bot, last.active_deals), deal,
                                  Rows(last.db_before, deal.id), last.db_before)
                    IN  \A k \in 1..Len(so.calls) : so.calls[k] \in PassCalls

\* C13: when the update_deal request of handle_new_deal or handle_update_deal
\* is answered with an error, no row is created for the deal and its row is
\* not modified.
C13_FailedUpdateLeavesRow ==
    (/\ last.op \in {"handle_new_deal", "handle_update_deal"}
     /\ api_calls # << >>
     /\ ~last.ok)
    => Rows(deals_db, last.deal.id) = last.row

\* C14: a step the loop takes at a section whose profit-config is empty
\* sends no request, leaves the bots and deals tables and the platform's
\* deals as they are, and moves the sweep to the first bot of the next
\* section.
C14_EmptySectionSkipped ==
    [][(/\ sweep.pc = "sweep"
        /\ sweep.section <= Len(config)
        /\ Len(config[sweep.section].profit_config) = 0)
       => /\ api_calls' = << >>
          /\ UNCHANGED << deals_db, bots_db, deals >>
          /\ sweep'.pc = "sweep"
          /\ sweep'.section = sweep.section + 1
          /\ sweep'.bot = 1]_vars

\* the first section was skipped with rows of its bot in the deals table,
\* and the bot of the second section has been processed since
C14_Witness ==
    /\ Len(config) = 2
    /\ Len(config[1].profit_config) = 0
    /\ last.op = "process_deals"
    /\ last.section = 2
    /\ \E d \in DOMAIN deals_db : deals_db[d].botid = config[1].botids[1]
    /\ config[1].botids[1] \notin DOMAIN bots_db

\* C15: for a deal whose strategy is neither long nor short, process_deals
\* sends no SL/TP update and no add-funds request and creates no row, and
\* the pass goes on: it returns, with the safety-order requests of its long
\* and short deals sent.
C15_UnknownStrategySkipped ==
    (/\ last.op = "process_deals"
     /\ \E deal \in PassDeals : deal.strategy \notin {"short", "long"})
    => /\ ~last.raised
       /\ \A deal \in PassDeals :
             /\ deal.strategy \notin {"short", "long"} =>
                   /\ \A c \in PassCalls : c.deal_id # deal.id
                   /\ Rows(last.db_before, deal.id) = {}
                          => Rows(deals_db, deal.id) = {}
             /\ deal.strategy \in {"short", "long"} =>
                   LET so == handle_safety_orders(
                                 BotData(last.bot, last.active_deals), deal,
                                 Rows(last.db_before, deal.id), last.db_before)
                   IN  \A k \in 1..Len(so.calls) : so.calls[k] \in PassCalls

\* C16: when the base-price stop-loss handle_new_deal computes is 0.00, it
\* sends no request and creates no row.
C16_NoActivationOnZeroStopLoss ==
    (/\ last.op = "handle_new_deal"
     /\ calculate_sl_percentage(
            last.deal, last.profit_config,
            last.deal.actual_profit_percentage
                - last.profit_config.activation_percentage)[3] = 0)
    => /\ api_calls = << >>
       /\ Rows(deals_db, last.deal.id) = {}
       /\ ~last.raised

C16_Witness ==
    /\ last.op = "handle_new_deal"
    /\ last.row = {}
    /\ last.profit_config = Tier(200, 0, 0, 4)
    /\ last.deal.actual_profit_percentage = 250
    /\ last.deal.strategy = "short"
    /\ last.deal.sold_average_price = last.deal.base_order_average_price
    /\ api_calls = << >>
    /\ Rows(deals_db, last.deal.id) = {}

\* the base-price stop-loss handle_update_deal computes in the call last
\* records
ComputedStopLoss ==
    calculate_sl_percentage(
        last.deal, last.profit_config,
        last.deal.actual_profit_percentage
            - last.profit_config.activation_percentage)[3]

\* C17: when the base-price stop-loss handle_update_deal computes is zero or
\* equal to the deal's current stop-loss percentage, no request is sent and
\* the row stays as it was; so a request is sent and the row rewritten only
\* for a computed stop-loss that is non-zero and differs from the current one.
C17_UpdateOnlyOnChangedStopLoss ==
    (/\ last.op = "handle_update_deal"
     /\ last.profit_config # EmptyConfig
     /\ \/ ComputedStopLoss = 0
        \/ {ComputedStopLoss} = last.deal.stop_loss_percentage)
    => /\ api_calls = << >>
       /\ Rows(deals_db, last.deal.id) = last.row
       /\ ~last.raised

C17_Witness ==
    /\ last.op = "handle_update_deal"
    /\ last.profit_config # EmptyConfig
    /\ last.profit_config.tp_increment_factor > 0
    /\ \E r \in last.row :
           last.deal.actual_profit_percentage > r.last_profit_percentage
    /\ ComputedStopLoss # 0
    /\ {ComputedStopLoss} = last.deal.stop_loss_percentage
    /\ api_calls = << >>
    /\ Rows(deals_db, last.deal.id) = last.row

\* the long and short deals of the pass for which no tier is selected
DealsWithoutTier ==
    { deal \in PassDeals :
        /\ deal.strategy \in {"short", "long"}
        /\ get_config_for_profit(last.section_profit_config,
                                 deal.actual_profit_percentage) = EmptyConfig }

\* C18: for a deal for which get_config_for_profit selects no tier,
\* process_deals sends no SL/TP update and creates no row, with or without a
\* row stored for the deal; a pass in which no long or short deal has a tier
\* selected counts no monitored deal and ends without an exception.
C18_NoTierNoAction ==
    last.op = "process_deals" =>
        /\ \A deal \in DealsWithoutTier :
              /\ \A c \in PassCalls :
                    c.action = "update_deal" => c.deal_id # deal.id
              /\ Rows(last.db_before, deal.id) = {}
                     => Rows(deals_db, deal.id) = {}
        /\ (\A deal \in PassDeals :
               deal.strategy \in {"short", "long"} => deal \in DealsWithoutTier)
           => /\ ~last.raised
              /\ last.monitored_deals = 0

\* C19: for every stop-loss price and reference price, the long conversion
\* is the negative of the short conversion, on the base-price axis and on the
\* average-price axis, after the rounding to two decimals.
C19_LongShortSignMirrors ==
    last.op = "conversions" =>
        /\ last.of_sl_price.base_long = -last.of_sl_price.base_short
        /\ last.of_sl_price.average_long = -last.of_sl_price.average_short

\* a price whose percentage lies halfway between two hundredths
C19_Witness ==
    /\ last.op = "conversions"
    /\ last.ref = 100
    /\ last.sl_price = 100 * PriceDen + 1500
    /\ last.of_sl_price.base_short = 2
    /\ last.of_sl_price.base_long = -2

\* sl_price is on the favourable side of the reference price for a long
\* deal, and other_sl_price further on that side
LongFavourable ==
    /\ last.op = "conversions"
    /\ last.ref * PriceDen < last.sl_price
    /\ last.sl_price < last.other_sl_price

\* the same for a short deal
ShortFavourable ==
    /\ last.op = "conversions"
    /\ last.sl_price < last.ref * PriceDen
    /\ last.other_sl_price < last.sl_price

\* C20: for a stop-loss price on the favourable side of the reference price,
\* the base-price conversion and the average-price conversion both return a
\* positive percentage, greater for a price further on that side.
C20_PositiveAndGrowing ==
    /\ LongFavourable =>
          /\ last.of_sl_price.base_long > 0
          /\ last.of_sl_price.average_long > 0
          /\ last.of_other.base_long > last.of_sl_price.base_long
          /\ last.of_other.average_long > last.of_sl_price.average_long
    /\ ShortFavourable =>
          /\ last.of_sl_price.base_short > 0
          /\ last.of_sl_price.average_short > 0
          /\ last.of_other.base_short > last.of_sl_price.base_short
          /\ last.of_other.average_short > last.of_sl_price.average_short

\* C20, amended: for a stop-loss price on the favourable side of the
\* reference price, the average-price conversion returns a percentage that
\* is not negative and not smaller for a price further on that side; the
\* base-price conversion returns a percentage that is not positive and not
\* greater for a price further on that side.
C20_AverageAxisGrowsBaseAxisMirrors ==
    /\ LongFavourable =>
          /\ last.of_sl_price.average_long >= 0
          /\ last.of_other.average_long >= last.of_sl_price.average_long
          /\ last.of_sl_price.base_long <= 0
          /\ last.of_other.base_long <= last.of_sl_price.base_long
    /\ ShortFavourable =>
          /\ last.of_sl_price.average_short >= 0
          /\ last.of_other.average_short >= last.of_sl_price.average_short
          /\ last.of_sl_price.base_short <= 0
          /\ last.of_other.base_short <= last.of_sl_price.base_short

C20_Witness ==
    /\ LongFavourable
    /\ last.of_sl_price.average_long > 0
    /\ last.of_other.average_long > last.of_sl_price.average_long
    /\ last.of_sl_price.base_long < 0
    /\ last.of_other.base_long < last.of_sl_price.base_long

\* the deals of the pass last records that are to be monitored: long or
\* short, and either without a row and with a tier selected, or with a row
\* and a reported stop-loss other than 0.0
MonitoredDeals ==
    { deal \in PassDeals :
        /\ deal.strategy \in {"short", "long"}
        /\ \/ /\ Rows(last.db_before, deal.id) = {}
              /\ get_config_for_profit(last.section_profit_config,
                                       deal.actual_profit_percentage)
                     # EmptyConfig
           \/ /\ Rows(last.db_before, deal.id) # {}
              /\ deal.stop_loss_percentage \notin { {}, {0} } }

\* C21: process_deals returns the number of the bot's active deals that are
\* monitored: with k such deals in the pass it returns k.
C21_ReturnsMonitoredCount ==
    (last.op = "process_deals" /\ ~last.raised) =>
        last.monitored_deals = Cardinality(MonitoredDeals)

\* the positions in active_deals at which the pass last records called
\* handle_safety_orders: the long and short deals up to the first one at
\* which an exception ended the pass
SafetyOrderPositions ==
    { i \in 1..Len(last.active_deals) :
        /\ last.active_deals[i].strategy \in {"short", "long"}
        /\ \A j \in 1..(i - 1) :
              last.active_deals[j].strategy \in {"short", "long"}
              => ~calculate_safety_order(
                      BotData(last.bot, last.active_deals),
                      last.active_deals[j]).raised }

\* the add-funds requests of the pass for one deal, by position in api_calls
AddFundsRequests(deal_id) ==
    { i \in 2..Len(api_calls) :
        /\ api_calls[i].call.action = "add_funds"
        /\ api_calls[i].call.deal_id = deal_id }

\* C22: in a pass, for each long or short deal handle_safety_orders is called
\* on, it sends exactly one add-funds request, with quantity so_volume and
\* rate so_price, when so_count > 0, and none when so_count = 0; no deal of
\* the pass gets more than one add-funds request.
C22_OneAddFundsPerDeal ==
    last.op = "process_deals" =>
        /\ \A i \in SafetyOrderPositions :
              LET deal == last.active_deals[i]
                  SOData == calculate_safety_order(
                                BotData(last.bot, last.active_deals), deal)
              IN  /\ (~SOData.raised /\ SOData.SOCounter > 0)
                      => /\ Cardinality(AddFundsRequests(deal.id)) = 1
                         /\ \A k \in AddFundsRequests(deal.id) :
                               /\ api_calls[k].call.quantity = SOData.SO_Volume
                               /\ api_calls[k].call.rate = SOData.SO_Price
                  /\ (~SOData.raised /\ SOData.SOCounter = 0)
                      => AddFundsRequests(deal.id) = {}
        /\ \A deal \in PassDeals :
              Cardinality(AddFundsRequests(deal.id)) <= 1

\* a pass over two deals: the first has reached its first safety order, the
\* second has reached none
C22_Witness ==
    /\ last.op = "process_deals"
    /\ ~last.raised
    /\ SafetyOrderPositions = {1, 2}
    /\ Cardinality(AddFundsRequests(last.active_deals[1].id)) = 1
    /\ AddFundsRequests(last.active_deals[2].id) = {}
    /\ calculate_safety_order(BotData(last.bot, last.active_deals),
                              last.active_deals[2]).SOCounter = 0

\* C23: a bot is fetched in a sweep only if starttime >= its
\* next_processing_timestamp or |next_processing_timestamp - starttime| >
\* check_interval; after a pass of process_deals that returned, the bot has a
\* record in the bots table and its timestamp is starttime + check_interval
\* when process_deals returned 0, starttime + monitor_interval otherwise.
C23_BotScheduling ==
    /\ last.op \in {"process_deals", "bot_request_failed"}
       => \/ last.starttime >= last.nextprocesstime
          \/ abs(last.nextprocesstime - last.starttime) > CheckInterval
    /\ (last.op = "process_deals" /\ ~last.raised)
       => /\ last.bot \in DOMAIN bots_db
          /\ bots_db[last.bot]
                = last.starttime + (IF last.monitored_deals = 0
                                    THEN CheckInterval ELSE MonitorInterval)

\* a bot processed in a first sweep is due again in the sweep that starts
\* check_interval later, and its record is replaced
C23_Witness ==
    /\ last.op = "process_deals"
    /\ ~last.raised
    /\ last.starttime = CheckInterval
    /\ last.nextprocesstime = CheckInterval
    /\ bots_db[last.bot] = 2 * CheckInterval

\* step k of the ladder is accepted, as the specification states it: the
\* drop of step 1 is less than |total_profit|, and for every step j of 2..k
\* the cumulative drop through j does not exceed |total_profit| and j is
\* within max_safety_orders
StepAccepted(thebot, deal_data, k) ==
    /\ RatLess(SumDrop(thebot, 1), RatAbs(currentTotalProfit(deal_data)))
    /\ \A j \in 2..k :
          /\ j <= deal_data.max_safety_orders
          /\ ~RatLess(RatAbs(currentTotalProfit(deal_data)), SumDrop(thebot, j))

\* C24: when the ladder is walked (actual_profit_percentage < 0) the accepted
\* steps are a prefix 1..so_count: step 1 is accepted iff its drop is less
\* than |total_profit|, a later step k <= max_safety_orders iff all earlier
\* steps were accepted and the cumulative drop through k does not exceed
\* |total_profit|, and no step is accepted after one that was not.
C24_AcceptedStepsArePrefix ==
    (last.op = "handle_safety_orders"
     /\ last.deal.actual_profit_percentage < 0)
    => /\ ~last.SOData.raised
       /\ \A k \in 1..(MaxSO + 1) :
             (k <= last.SOData.SOCounter)
                 <=> StepAccepted(last.bot, last.deal, k)

\* two steps accepted, the second with a cumulative drop equal to the loss,
\* the third within max_safety_orders and beyond the loss
C24_Witness ==
    /\ last.op = "handle_safety_orders"
    /\ last.deal.actual_profit_percentage < 0
    /\ last.SOData.SOCounter = 2
    /\ last.deal.max_safety_orders = 3
    /\ SumDrop(last.bot, 2) = RatAbs(currentTotalProfit(last.deal))
    /\ RatLess(RatAbs(currentTotalProfit(last.deal)), SumDrop(last.bot, 3))

\* handle_update_deal was called with a profit above the row's
\* last_profit_percentage and a tier whose two increment factors are <= 0
ProfitUpFactorsIdle ==
    /\ last.op = "handle_update_deal"
    /\ last.profit_config # EmptyConfig
    /\ last.profit_config.sl_increment_factor <= 0
    /\ last.profit_config.tp_increment_factor <= 0
    /\ \E r \in last.row :
           last.deal.actual_profit_percentage > r.last_profit_percentage

\* C25: when the profit has increased and the selected tier has
\* sl_increment_factor <= 0 and tp_increment_factor <= 0, handle_update_deal
\* sends no request and leaves the row as it was, last_profit_percentage
\* included.
C25_NoUpdateWithIdleFactors ==
    ProfitUpFactorsIdle
    => /\ api_calls = << >>
       /\ Rows(deals_db, last.deal.id) = last.row
       /\ ~last.raised

\* the stop-loss the tier gives differs from the one the platform holds, so
\* that only the test of the factors keeps the update back
C25_Witness ==
    /\ ProfitUpFactorsIdle
    /\ last.profit_config.sl_increment_factor < 0
    /\ ComputedStopLoss # 0
    /\ {ComputedStopLoss} # last.deal.stop_loss_percentage
    /\ api_calls = << >>
    /\ Rows(deals_db, last.deal.id) = last.row

\* initial_stoploss_percentage + activation_diff * sl_increment_factor of the
\* call last records, in hundredths of a percent over FactorScale
StopLossDistance ==
    last.profit_config.initial_stoploss_percentage * FactorScale
    + last.activation_diff * last.profit_config.sl_increment_factor

\* the stop-loss price is the average price less (short) or plus (long)
\* average_price * (initial/100 + (activation_diff/100) * factor)
StopLossPricePlaced ==
    last.sl_data[2]
        = IF last.deal.strategy = "short"
          THEN last.sl_data[1] * PriceDen - last.sl_data[1] * StopLossDistance
          ELSE last.sl_data[1] * PriceDen + last.sl_data[1] * StopLossDistance

AverageIsBase ==
    /\ last.op = "calculate_sl_percentage"
    /\ last.sl_data[1] = last.deal.base_order_average_price

\* C26: calculate_sl_percentage places the stop-loss price at the average
\* price less (short) or plus (long) average_price * (initial/100 +
\* (activation_diff/100) * sl_increment_factor), and when the average price
\* is the base order price the base-price percentage it returns is
\* -(initial + activation_diff * sl_increment_factor), in both directions.
C26_StopLossFromAverage ==
    /\ last.op = "calculate_sl_percentage" => StopLossPricePlaced
    /\ AverageIsBase => last.sl_data[3] * FactorScale = -StopLossDistance

\* C26, amended: the same, the returned percentage being
\* -(initial + activation_diff * sl_increment_factor) rounded to two
\* decimals, that is within 0.005 of it.
C26_StopLossFromAverageRounded ==
    /\ last.op = "calculate_sl_percentage" => StopLossPricePlaced
    /\ AverageIsBase
       => 2 * fabs(last.sl_data[3] * FactorScale + StopLossDistance)
              <= FactorScale

\* a long deal whose distance has a third decimal
C26_Witness ==
    /\ AverageIsBase
    /\ last.deal.strategy = "long"
    /\ StopLossDistance % FactorScale # 0
    /\ last.sl_data[3] < 0

\* in the pass last records no SL/TP update was sent, no row was created or
\* changed, and no long or short deal of the pass lost its row
TrailingBranchNotTaken ==
    /\ \A c \in PassCalls : c.action # "update_deal"
    /\ \A d \in DOMAIN deals_db :
          /\ d \in DOMAIN last.db_before
          /\ deals_db[d] = last.db_before[d]
    /\ \A deal \in PassDeals :
          deal.strategy \in {"short", "long"}
          => Rows(deals_db, deal.id) = Rows(last.db_before, deal.id)

\* C27: for every bot snapshot and tier list, process_deals calls none of
\* handle_new_deal, handle_update_deal and remove_active_deal: it sends no
\* SL/TP update, creates and updates no row, and returns 0.
C27_TrailingBranchesUnreachable ==
    last.op = "process_deals" =>
        /\ TrailingBranchNotTaken
        /\ ~last.raised
        /\ last.monitored_deals = 0

\* a snapshot list without the safety-order counters of its deals
WithoutCounters(active_deals) ==
    [i \in 1..Len(active_deals) |->
        [active_deals[i] EXCEPT !.completed_safety_orders_count = 0]]

\* the last two passes of the bot last records read the same snapshot, the
\* counters of completed safety orders apart
SameSnapshotAgain ==
    /\ last.op = "process_deals"
    /\ last.bot \in DOMAIN passes
    /\ Len(passes[last.bot]) = 2
    /\ WithoutCounters(passes[last.bot][1].active_deals)
           = WithoutCounters(passes[last.bot][2].active_deals)

\* C28: safety-order handling keeps no state and looks at none: a pass that
\* reads the bot and deal snapshot the pass before it read for that bot,
\* whatever the counters of completed safety orders and whatever the deals
\* and bots tables hold by then, sends the same add-funds requests again,
\* and leaves the rows of its deals as they were.
C28_SameSnapshotSameRequest ==
    SameSnapshotAgain
    => /\ ~last.raised
       /\ passes[last.bot][2].requests = passes[last.bot][1].requests
       /\ \A deal \in PassDeals :
             Rows(deals_db, deal.id) = Rows(last.db_before, deal.id)

\* the second pass sends an add-funds request for a deal that reports a
\* completed safety order by then
C28_Witness ==
    /\ SameSnapshotAgain
    /\ \E deal \in PassDeals :
          /\ deal.completed_safety_orders_count = 1
          /\ AddFundsRequests(deal.id) # {}
    /\ passes[last.bot][1].active_deals # passes[last.bot][2].active_deals

====
